---------------------------- MODULE Spec2Model ----------------------------
(***************************************************************************)
(* Model of src/session-backend/index.ts: the whiteboard session backend.  *)
(* One Node.js process, single-threaded: every action below is one         *)
(* run-to-completion step of the event loop, i.e. the code executed from   *)
(* one resumption (an incoming socket event, or the settling of an awaited *)
(* call) up to the next `await`.                                           *)
(*                                                                         *)
(* JavaScript values are modelled by their JSON tokens (strings): "0" and  *)
(* "1" are numbers, "\"a\"" is a string, "null" is null and "undefined"    *)
(* an absent property.  Strict equality of primitives is equality of       *)
(* tokens.                                                                 *)
(***************************************************************************)
EXTENDS Integers, Sequences, FiniteSets, TLC

\* ------------------------------------------------------------------ bounds
\* number of `handle-user-prompt` events the model follows
MaxPrompts == 2
\* number of requires_action batches the external service issues per run
MaxBatches == 1
\* cap on the length of the shapes array
MaxShapes == 2
\* number of distinct values Math.random()*100000 is drawn from
NumIds == 2
\* unrolling of the synchronous loop at lines 53-103 when nothing is awaited
MaxSpin == 1

\* ------------------------------------------------------------- JSON values
Undefined == "undefined"
Null == "null"
\* tokens of finite numbers
Numbers == {"0", "1"}
\* a token that is a string, not a number
NotANumber == "\"wide\""
IdTokens == <<"0", "1", "2", "3", "4">>
\* the values Math.floor(Math.random() * 100000) is drawn from (line 249)
RandomIds == {IdTokens[i] : i \in 1..NumIds}

\* Number.isFinite (lines 235-238): true of number tokens only
IsFinite(v) == v \in Numbers
\* a ?? b (lines 248, 260-264): b when a is null or undefined
Coalesce(a, b) == IF a \in {Undefined, Null} THEN b ELSE a

DefaultColor == "hsl(0, 0%, 0%)"

\* an argument object: every property the tools read, "undefined" when absent
Obj(id, x, y, w, h, color) ==
  [id |-> id, x |-> x, y |-> y, w |-> w, h |-> h, color |-> color]
NoObj == Obj(Undefined, Undefined, Undefined, Undefined, Undefined, Undefined)

\* call.function.arguments, a JSON text: malformed, the text "null", or an object
Payload(json, obj) == [json |-> json, obj |-> obj]

\* JSON.parse (line 66): throws on malformed text, else yields the value
JSONparse(p) ==
  IF p.json = "malformed" THEN [threw |-> TRUE, isNull |-> FALSE, value |-> NoObj]
  ELSE IF p.json = "null" THEN [threw |-> FALSE, isNull |-> TRUE, value |-> NoObj]
  ELSE [threw |-> FALSE, isNull |-> FALSE, value |-> p.obj]

\* ------------------------------------------------------------------ tools
\* the own properties of `functions` (lines 232-266)
OwnTools == {"createShape", "editExistingShape"}
\* names every object inherits from Object.prototype: functions[name] is truthy
InheritedTools == {"toString"}

\* functions[call.function.name] is truthy (lines 67-68)
HasFn(name) == name \in OwnTools \cup InheritedTools

\* Array.prototype.find on shapes by id (lines 156, 255): index, 0 when none
FindIndex(ss, id) ==
  IF \E i \in 1..Len(ss) : ss[i].id = id
  THEN CHOOSE i \in 1..Len(ss) : ss[i].id = id /\ \A j \in 1..(i-1) : ss[j].id # id
  ELSE 0

\* createShape without the `?? 'hsl(0, 0%, 0%)'` of line 248
createShapeNoDefault(ss, a, rnd) ==
  IF ~IsFinite(a.x) \/ ~IsFinite(a.y) \/ ~IsFinite(a.w) \/ ~IsFinite(a.h)
  THEN [shapes |-> ss, err |-> "Error: required params were not given"]
  ELSE [shapes |-> Append(ss, [x |-> a.x, y |-> a.y, w |-> a.w, h |-> a.h,
                               color |-> a.color, id |-> rnd]),
        err |-> ""]

\* createShape whose check of lines 235-238 looks at x and y only
createShapeHalfChecked(ss, a, rnd) ==
  IF ~IsFinite(a.x) \/ ~IsFinite(a.y)
  THEN [shapes |-> ss, err |-> "Error: required params were not given"]
  ELSE [shapes |-> Append(ss, [x |-> a.x, y |-> a.y, w |-> a.w, h |-> a.h,
                               color |-> Coalesce(a.color, DefaultColor),
                               id |-> rnd]),
        err |-> ""]

\* functions.createShape (lines 233-252); rnd is the id Math.random yields.
\* toolOutput?.x of null is undefined. Result: the shapes and the error thrown.
createShape(ss, a, rnd) ==
  IF ~IsFinite(a.x) \/ ~IsFinite(a.y) \/ ~IsFinite(a.w) \/ ~IsFinite(a.h)
  THEN [shapes |-> ss, err |-> "Error: required params were not given"]
  ELSE [shapes |-> Append(ss, [x |-> a.x, y |-> a.y, w |-> a.w, h |-> a.h,
                               color |-> Coalesce(a.color, DefaultColor),
                               id |-> rnd]),
        err |-> ""]

\* editExistingShape assigning every property as update-shape does (lines
\* 158-161), without the `??` of lines 260-264
editExistingShapeOverwriting(ss, parsed) ==
  IF parsed.isNull
  THEN [shapes |-> ss, err |-> "TypeError: Cannot read properties of null (reading 'id')"]
  ELSE LET a == parsed.value
           i == FindIndex(ss, a.id)
       IN IF i = 0
          THEN [shapes |-> ss, err |-> "Error: could not find shape"]
          ELSE [shapes |-> [ss EXCEPT ![i] =
                              [id |-> @.id, x |-> a.x, y |-> a.y, w |-> a.w,
                               h |-> a.h, color |-> a.color]],
                err |-> ""]

\* editExistingShape returning silently when no shape has the id, as
\* update-shape does (line 157), instead of the throw of line 257
editExistingShapeSilent(ss, parsed) ==
  IF parsed.isNull
  THEN [shapes |-> ss, err |-> "TypeError: Cannot read properties of null (reading 'id')"]
  ELSE LET a == parsed.value
           i == FindIndex(ss, a.id)
       IN IF i = 0
          THEN [shapes |-> ss, err |-> ""]
          ELSE [shapes |-> [ss EXCEPT ![i] =
                              [id |-> @.id,
                               x |-> Coalesce(a.x, @.x),
                               y |-> Coalesce(a.y, @.y),
                               w |-> Coalesce(a.w, @.w),
                               h |-> Coalesce(a.h, @.h),
                               color |-> Coalesce(a.color, @.color)]],
                err |-> ""]

\* functions.editExistingShape (lines 253-265); toolOutput.id of null throws
editExistingShape(ss, parsed) ==
  IF parsed.isNull
  THEN [shapes |-> ss, err |-> "TypeError: Cannot read properties of null (reading 'id')"]
  ELSE LET a == parsed.value
           i == FindIndex(ss, a.id)
       IN IF i = 0
          THEN [shapes |-> ss, err |-> "Error: could not find shape"]
          ELSE [shapes |-> [ss EXCEPT ![i] =
                              [id |-> @.id,
                               x |-> Coalesce(a.x, @.x),
                               y |-> Coalesce(a.y, @.y),
                               w |-> Coalesce(a.w, @.w),
                               h |-> Coalesce(a.h, @.h),
                               color |-> Coalesce(a.color, @.color)]],
                err |-> ""]

\* fn(functionArgs) (line 81) for a name with a truthy functions[name]
CallFn(name, ss, parsed, rnd) ==
  IF name = "createShape" THEN createShape(ss, parsed.value, rnd)
  ELSE IF name = "editExistingShape" THEN editExistingShape(ss, parsed)
  ELSE [shapes |-> ss, err |-> ""]


\* one tool result (lines 71-74, 91-94): the call id, the output text and,
\* for a success, the array JSON.stringify(shapes) serialises (line 82)
ToolOutput(id, text, ss) == [tool_call_id |-> id, output |-> text, shapes |-> ss]

SuccessText == "Success. New shapes array: "
NotFoundText == "error: couldnt find function"

\* DispatchOne with `shapes` serialised before fn(functionArgs) rather than
\* after it (line 82 moved above line 81)
DispatchOneStaleArray(call, parsed, ss, rnd) ==
  IF ~HasFn(call.function.name)
  THEN [shapes |-> ss, out |-> ToolOutput(call.id, NotFoundText, <<>>), errored |-> TRUE]
  ELSE LET r == CallFn(call.function.name, ss, parsed, rnd)
       IN IF r.err = ""
          THEN [shapes |-> r.shapes,
                out |-> ToolOutput(call.id, SuccessText, ss),
                errored |-> FALSE]
          ELSE [shapes |-> ss, out |-> ToolOutput(call.id, r.err, <<>>), errored |-> TRUE]

\* the body of toolCalls.map's callback for one call (lines 65-95), given the
\* parsed arguments
DispatchOne(call, parsed, ss, rnd) ==
  IF ~HasFn(call.function.name)
  THEN [shapes |-> ss, out |-> ToolOutput(call.id, NotFoundText, <<>>), errored |-> TRUE]
  ELSE LET r == CallFn(call.function.name, ss, parsed, rnd)
       IN IF r.err = ""
          THEN [shapes |-> r.shapes,
                out |-> ToolOutput(call.id, SuccessText, r.shapes),
                errored |-> FALSE]
          ELSE [shapes |-> ss, out |-> ToolOutput(call.id, r.err, <<>>), errored |-> TRUE]

\* toolCalls.map(...) (lines 64-95) from call i on: calls are handled in order;
\* a JSON.parse that throws (line 66) ends the map with the exception.
\* acc: [shapes, outputs, threw, ndone, errored, mutated]
RECURSIVE DispatchFrom(_, _, _, _)
DispatchFrom(calls, i, rnds, acc) ==
  IF i > Len(calls) THEN acc
  ELSE LET parsed == JSONparse(calls[i].function.arguments)
       IN IF parsed.threw
          THEN [acc EXCEPT !.threw = TRUE]
          ELSE LET d == DispatchOne(calls[i], parsed, acc.shapes, rnds[i])
               IN DispatchFrom(calls, i + 1, rnds,
                    [shapes |-> d.shapes,
                     outputs |-> Append(acc.outputs, d.out),
                     threw |-> FALSE,
                     ndone |-> i,
                     errored |-> acc.errored \/ d.errored,
                     mutated |-> acc.mutated \/ d.shapes # acc.shapes])

Dispatch(calls, ss, rnds) ==
  DispatchFrom(calls, 1, rnds,
    [shapes |-> ss, outputs |-> <<>>, threw |-> FALSE, ndone |-> 0,
     errored |-> FALSE, mutated |-> FALSE])

\* how many shapes a batch can append (bounds the model only)
RECURSIVE NumCreates(_)
NumCreates(calls) ==
  IF calls = <<>> THEN 0
  ELSE (IF Head(calls).function.name = "createShape" THEN 1 ELSE 0)
       + NumCreates(Tail(calls))

\* ------------------------------------------------------- external service
\* run statuses of the external service (spec section 6)
failedStatus == {"cancelled", "failed", "expired"}
pendingStatus == {"in_progress", "queued", "requires_action"}
\* the statuses in which the service still works on a run
NonTerminal == {"queued", "in_progress", "requires_action"}

\* the tool calls the service may ask for: name and JSON argument text
CreateOk ==
  [name |-> "createShape",
   arguments |-> Payload("object", Obj(Undefined, "0", "0", "1", "1", Undefined))]
CreateNotFinite ==
  [name |-> "createShape",
   arguments |-> Payload("object", Obj(Undefined, "0", NotANumber, "1", "1", Undefined))]
CreateMalformed == [name |-> "createShape", arguments |-> Payload("malformed", NoObj)]
EditZero ==
  [name |-> "editExistingShape",
   arguments |-> Payload("object", Obj("0", "1", Undefined, Undefined, Undefined, Undefined))]
EditNull == [name |-> "editExistingShape", arguments |-> Payload("null", NoObj)]
NoSuchTool == [name |-> "noSuchTool", arguments |-> Payload("object", NoObj)]
ToStringTool == [name |-> "toString", arguments |-> Payload("object", NoObj)]

\* required_action.submit_tool_outputs.tool_calls of batch b of run r
MkCalls(r, b, fs) ==
  [i \in 1..Len(fs) |-> [id |-> <<r, b, i>>, function |-> fs[i]]]

\* the batches of tool calls the service may ask for
BatchMenu ==
  { <<CreateOk, EditZero>>, <<CreateMalformed, CreateOk>>,
    <<CreateNotFinite, CreateOk>>, <<NoSuchTool, EditZero>>,
    <<ToStringTool>>, <<EditNull>> }

\* the arguments the service may pass to createShape: all four numbers given,
\* with a colour, without one or with a null one; or one of the four missing,
\* null or not a number
CreateArgs ==
  { Obj(Undefined, "0", "1", "1", "0", c) : c \in {Undefined, Null, "red"} }
  \cup { Obj(Undefined, Undefined, "1", "1", "0", "red"),
         Obj(Undefined, "0", NotANumber, "1", "0", Undefined),
         Obj(Undefined, "0", "1", Null, "0", Undefined),
         Obj(Undefined, "0", "1", "1", Undefined, Undefined),
         NoObj }

\* the arguments the service may pass to editExistingShape: an id and any
\* choice of the other properties
EditArgs ==
  { Obj(id, x, Undefined, Undefined, h, c) :
      id \in RandomIds, x \in {Undefined, "1"}, h \in {Undefined, "0"},
      c \in {Undefined, "red"} }
  \cup { Obj(id, Undefined, Null, "0", Undefined, Undefined) : id \in RandomIds }
  \cup { Obj(Undefined, "1", Undefined, Undefined, Undefined, Undefined) }

\* batches of one tool call, for the behaviour of each tool by itself
ToolMenu ==
  { <<[name |-> "createShape", arguments |-> Payload("object", a)]>> : a \in CreateArgs }
  \cup { <<[name |-> "editExistingShape", arguments |-> Payload("object", a)]>> :
           a \in EditArgs }
  \cup { <<[name |-> "createShape", arguments |-> Payload("null", NoObj)]>>,
         <<EditNull>>, <<NoSuchTool>>, <<ToStringTool>> }

NoRun == 0
Clients == {"c1", "c2"}
Prompts == 1..MaxPrompts

VARIABLES
  shapes,       \* line 118: the whiteboard
  users,        \* line 121: connected clients
  activeRun,    \* line 124: id of the run, NoRun for null
  runs,         \* the external service's runs: status and pending tool calls
  messages,     \* number of messages appended to the thread
  pc,           \* per prompt: the await its handler is suspended at
  sock,         \* per prompt: the socket it came from
  runResult,    \* per prompt: the local runResult (line 38)
  pending,      \* per prompt: the run id and body of the call it awaits
  promise,      \* per prompt: state of the promise handleUserPrompt returns
  myRun,        \* per prompt: the run its runs.create returned
  lastUpdate,   \* per prompt: the last `updates` text emitted to its socket
  failNotified, \* per prompt: an `updates` naming a failed status was emitted
  observedFail, \* per prompt: its runResult showed a failed status
  caught,       \* per prompt: what the catch of line 107 caught, "no" if it never ran
  snapshotTo,   \* per prompt: who got the `snapshot` of line 147
  mutated,      \* per prompt: one of its tool calls changed shapes
  dispatchCount, \* per tool call id: times it was dispatched to a handler
  batchSeen,    \* per run: requires_action observations
  submitCount,  \* per run: submitToolOutputs calls answering its batches
  lastObserved, \* per run: the last status any handler observed
  spins         \* per prompt: iterations of the loop made without an await

progVars == <<shapes, users, activeRun, messages, pc, sock, runResult, pending,
              promise, myRun>>
histVars == <<lastUpdate, failNotified, observedFail, caught,
              snapshotTo, mutated, dispatchCount, batchSeen,
              submitCount, lastObserved, spins>>
vars == <<progVars, histVars, runs>>

NoResult == [run |-> NoRun, status |-> "none", calls |-> <<>>, batch |-> 0]
NoPending == [target |-> NoRun, outputs |-> <<>>]

Init ==
  /\ shapes = <<>>
  /\ users = {}
  /\ activeRun = NoRun
  /\ runs = <<>>
  /\ messages = 0
  /\ pc = [h \in Prompts |-> "none"]
  /\ sock = [h \in Prompts |-> "c1"]
  /\ runResult = [h \in Prompts |-> NoResult]
  /\ pending = [h \in Prompts |-> NoPending]
  /\ promise = [h \in Prompts |-> "none"]
  /\ myRun = [h \in Prompts |-> NoRun]
  /\ lastUpdate = [h \in Prompts |-> "none"]
  /\ failNotified = [h \in Prompts |-> FALSE]
  /\ observedFail = [h \in Prompts |-> FALSE]
  /\ caught = [h \in Prompts |-> "no"]
  /\ snapshotTo = [h \in Prompts |-> {}]
  /\ mutated = [h \in Prompts |-> FALSE]
  /\ dispatchCount = <<>>
  /\ batchSeen = <<>>
  /\ submitCount = <<>>
  /\ lastObserved = <<>>
  /\ spins = [h \in Prompts |-> 0]


\* ---------------------------------------------------------------- helpers
\* a handler inside the loop of lines 53-103 with nothing awaited keeps the
\* only thread: no other event is handled meanwhile
Busy == \E h \in Prompts : pc[h] = "spin"

\* what runs.retrieve / submitToolOutputs return for run r
RunObject(rs, r) ==
  [run |-> r, status |-> rs[r].status, calls |-> rs[r].calls, batch |-> rs[r].nbatch]

CallIds(calls) == {calls[i].id : i \in 1..Len(calls)}
\* count one more dispatch of the calls ids
Bump(f, ids) == [k \in DOMAIN f |-> IF k \in ids THEN f[k] + 1 ELSE f[k]]

\* the end of the gateway's handler (lines 144-147) once handleUserPrompt's
\* promise is settled as `state`: resolved goes on to line 147, rejected throws.
\* The handler's locals die with it.
GatewayEnd(h, state) ==
  /\ snapshotTo' = [snapshotTo EXCEPT ![h] = IF state = "resolved" THEN {sock[h]} ELSE {}]
  /\ pc' = [pc EXCEPT ![h] = "done"]
  /\ runResult' = [runResult EXCEPT ![h] = NoResult]
  /\ pending' = [pending EXCEPT ![h] = NoPending]

\* LeaveLoop without the assignment of line 104
LeaveLoopKeepingHandle(h, rejected) ==
  /\ UNCHANGED activeRun
  /\ lastUpdate' = [lastUpdate EXCEPT ![h] = "empty"]
  /\ promise' = [promise EXCEPT ![h] = IF rejected THEN "rejected" ELSE "resolved"]
  /\ GatewayEnd(h, IF rejected THEN "rejected" ELSE "resolved")
  /\ UNCHANGED <<shapes, caught, mutated, dispatchCount, submitCount, spins>>

\* lines 104-106: leave the loop; resolve() after reject() changes nothing
LeaveLoop(h, rejected) ==
  /\ activeRun' = NoRun
  /\ lastUpdate' = [lastUpdate EXCEPT ![h] = "empty"]
  /\ promise' = [promise EXCEPT ![h] = IF rejected THEN "rejected" ELSE "resolved"]
  /\ GatewayEnd(h, IF rejected THEN "rejected" ELSE "resolved")
  /\ UNCHANGED <<shapes, caught, mutated, dispatchCount, submitCount, spins>>

\* lines 107-110: the catch; `what` is "service" or "parse"
Catch(h, what) ==
  /\ caught' = [caught EXCEPT ![h] = what]
  /\ promise' = [promise EXCEPT ![h] = "rejected"]
  /\ GatewayEnd(h, "rejected")

\* lines 55-57: status queued or in_progress
StartSleep(h, rr) ==
  /\ lastUpdate' = [lastUpdate EXCEPT ![h] = "processing"]
  /\ pc' = [pc EXCEPT ![h] = "sleep"]
  /\ runResult' = [runResult EXCEPT ![h] = rr]
  /\ pending' = [pending EXCEPT ![h] = NoPending]
  /\ UNCHANGED <<shapes, activeRun, promise, caught, snapshotTo, mutated,
                 dispatchCount, submitCount, spins>>

\* lines 64-102: status requires_action; ar is activeRun when the code runs
DispatchBatch(h, rr, ar) ==
  /\ Len(shapes) + NumCreates(rr.calls) <= MaxShapes
  /\ \E rnds \in [1..Len(rr.calls) -> RandomIds] :
       LET d == Dispatch(rr.calls, shapes, rnds)
       IN /\ shapes' = d.shapes
          /\ mutated' = [mutated EXCEPT ![h] = @ \/ d.mutated]
          /\ dispatchCount' =
               Bump(dispatchCount, {rr.calls[i].id : i \in 1..d.ndone})
          /\ activeRun' = ar
          /\ lastUpdate' = [lastUpdate EXCEPT ![h] = IF d.errored THEN "errors" ELSE @]
          /\ IF d.threw
             THEN /\ Catch(h, "parse")
                  /\ UNCHANGED <<submitCount, spins>>
             ELSE /\ UNCHANGED <<promise, caught, snapshotTo>>
                  /\ runResult' = [runResult EXCEPT ![h] = rr]
                  /\ IF ar # NoRun
                     THEN /\ pending' = [pending EXCEPT ![h] =
                                           [target |-> ar, outputs |-> d.outputs]]
                          /\ submitCount' = [submitCount EXCEPT ![ar] = @ + 1]
                          /\ pc' = [pc EXCEPT ![h] = "submit"]
                          /\ UNCHANGED spins
                     ELSE /\ pc' = [pc EXCEPT ![h] = "spin"]
                          /\ pending' = [pending EXCEPT ![h] = NoPending]
                          /\ spins' = [spins EXCEPT ![h] =
                                        IF pc[h] = "spin" THEN @ + 1 ELSE @]
                          /\ UNCHANGED submitCount

\* the loop of lines 52-106 entered with runResult rr; ar is activeRun then and
\* rejected tells whether reject was already called (line 48)
Loop(h, rr, ar, rejected) ==
  IF rr.status \in {"in_progress", "queued"}
  THEN StartSleep(h, rr)
  ELSE IF rr.status \in pendingStatus
  THEN DispatchBatch(h, rr, ar)
  ELSE LeaveLoop(h, rejected)

\* what a fetched run object shows, for the record
Observe(h, rr) ==
  /\ lastObserved' = [lastObserved EXCEPT ![rr.run] = rr.status]
  /\ observedFail' = [observedFail EXCEPT ![h] = @ \/ rr.status \in failedStatus]
  /\ batchSeen' = [batchSeen EXCEPT ![rr.run] =
                     IF rr.status = "requires_action" THEN @ + 1 ELSE @]

\* ---------------------------------------------------------------- actions
\* io.on('connection') (lines 126-130): the socket gets a snapshot and joins
Connect(c) ==
  /\ ~Busy
  /\ c \notin users
  /\ users' = users \cup {c}
  /\ UNCHANGED <<shapes, activeRun, messages, pc, sock, runResult, pending,
                 promise, myRun, histVars, runs>>

\* socket.on('disconnect') (lines 169-172)
Disconnect(c) ==
  /\ ~Busy
  /\ c \in users
  /\ users' = users \ {c}
  /\ UNCHANGED <<shapes, activeRun, messages, pc, sock, runResult, pending,
                 promise, myRun, histVars, runs>>

\* socket.on('create-shape') (lines 150-153): the client's shape is pushed as is
CreateShapeEvent(c, shape) ==
  /\ ~Busy
  /\ c \in users
  /\ Len(shapes) < MaxShapes
  /\ shapes' = Append(shapes, shape)
  /\ UNCHANGED <<users, activeRun, messages, pc, sock, runResult, pending,
                 promise, myRun, histVars, runs>>

\* socket.on('update-shape') (lines 155-163)
UpdateShapeEvent(c, updatedShape) ==
  /\ ~Busy
  /\ c \in users
  /\ LET i == FindIndex(shapes, updatedShape.id)
     IN IF i = 0
        THEN shapes' = shapes
        ELSE shapes' = [shapes EXCEPT ![i] =
                          [@ EXCEPT !.x = updatedShape.x, !.y = updatedShape.y,
                                    !.w = updatedShape.w, !.h = updatedShape.h]]
  /\ UNCHANGED <<users, activeRun, messages, pc, sock, runResult, pending,
                 promise, myRun, histVars, runs>>

\* socket.on('handle-user-prompt') (lines 141-148) up to the first await of
\* handleUserPrompt (line 29); h is the next unused prompt slot
Prompt(c, h) ==
  /\ ~Busy
  /\ c \in users
  /\ pc[h] = "none"
  /\ \A k \in Prompts : k < h => pc[k] # "none"
  /\ sock' = [sock EXCEPT ![h] = c]
  /\ IF activeRun = NoRun
     THEN /\ pc' = [pc EXCEPT ![h] = "msg"]
          /\ promise' = [promise EXCEPT ![h] = "pending"]
          /\ UNCHANGED snapshotTo
     ELSE /\ pc' = [pc EXCEPT ![h] = "done"]
          /\ snapshotTo' = [snapshotTo EXCEPT ![h] = {c}]
          /\ UNCHANGED promise
  /\ UNCHANGED <<shapes, users, activeRun, messages, runResult, pending, myRun,
                 lastUpdate, failNotified, observedFail, caught, mutated,
                 dispatchCount, batchSeen, submitCount, lastObserved, spins, runs>>

\* messages.create settles (line 29); on success runs.create is called (line 34)
MessageCreated(h) ==
  /\ ~Busy
  /\ pc[h] = "msg"
  /\ messages' = messages + 1
  /\ pc' = [pc EXCEPT ![h] = "create"]
  /\ UNCHANGED <<shapes, users, activeRun, sock, runResult, pending, promise,
                 myRun, histVars, runs>>

\* messages.create or runs.create throws (lines 29, 34): outside the try, the
\* async executor's own promise rejects and the returned promise stays pending
StartFailed(h) ==
  /\ ~Busy
  /\ pc[h] \in {"msg", "create"}
  /\ pc' = [pc EXCEPT ![h] = "crashed"]
  /\ UNCHANGED <<shapes, users, activeRun, messages, sock, runResult, pending,
                 promise, myRun, histVars, runs>>

\* runs.create settles (line 34): activeRun is assigned and the first
\* runs.retrieve is called with the new run's id (line 42)
RunCreated(h) ==
  /\ ~Busy
  /\ pc[h] = "create"
  /\ runs' = Append(runs, [status |-> "queued", calls |-> <<>>, nbatch |-> 0])
  /\ activeRun' = Len(runs) + 1
  /\ myRun' = [myRun EXCEPT ![h] = Len(runs) + 1]
  /\ pending' = [pending EXCEPT ![h] = [target |-> Len(runs) + 1, outputs |-> <<>>]]
  /\ pc' = [pc EXCEPT ![h] = "first"]
  /\ batchSeen' = Append(batchSeen, 0)
  /\ submitCount' = Append(submitCount, 0)
  /\ lastObserved' = Append(lastObserved, "none")
  /\ UNCHANGED <<shapes, users, messages, sock, runResult, promise, lastUpdate,
                 failNotified, observedFail, caught, snapshotTo, mutated,
                 dispatchCount, spins>>

\* the first runs.retrieve settles (lines 42-53)
FirstRetrieved(h) ==
  /\ ~Busy
  /\ pc[h] = "first"
  /\ LET rr == RunObject(runs, pending[h].target)
     IN /\ Observe(h, rr)
        /\ IF rr.status \in failedStatus
           THEN /\ failNotified' = [failNotified EXCEPT ![h] = TRUE]
                /\ Loop(h, rr, NoRun, TRUE)
           ELSE /\ UNCHANGED failNotified
                /\ Loop(h, rr, activeRun, FALSE)
  /\ UNCHANGED <<users, messages, sock, myRun, runs>>

\* the sleep settles (lines 57-61): retrieve the run activeRun names now, if
\* any; else `continue` with the same runResult, back to the sleep
SleepDone(h) ==
  /\ ~Busy
  /\ pc[h] = "sleep"
  /\ IF activeRun # NoRun
     THEN /\ pending' = [pending EXCEPT ![h] = [target |-> activeRun, outputs |-> <<>>]]
          /\ pc' = [pc EXCEPT ![h] = "poll"]
     ELSE UNCHANGED <<pending, pc>>
  /\ UNCHANGED <<shapes, users, activeRun, messages, sock, runResult, promise,
                 myRun, histVars, runs>>

\* the runs.retrieve of line 59 settles, then `continue` re-enters the loop
Polled(h) ==
  /\ ~Busy
  /\ pc[h] = "poll"
  /\ LET rr == RunObject(runs, pending[h].target)
     IN /\ Observe(h, rr)
        /\ Loop(h, rr, activeRun, FALSE)
  /\ UNCHANGED <<users, messages, sock, myRun, failNotified, runs>>

\* the service takes the tool outputs for run t: it must be waiting for exactly
\* the calls answered
Accepts(rs, t, outputs) ==
  /\ rs[t].status = "requires_action"
  /\ {outputs[i].tool_call_id : i \in 1..Len(outputs)} = CallIds(rs[t].calls)

\* submitToolOutputs settles (lines 99-101) with the updated run: queued
\* again, or already failed
Submitted(h) ==
  /\ ~Busy
  /\ pc[h] = "submit"
  /\ Accepts(runs, pending[h].target, pending[h].outputs)
  /\ \E s \in {"queued", "failed"} :
       runs' = [runs EXCEPT ![pending[h].target] =
                  [status |-> s, calls |-> <<>>, nbatch |-> @.nbatch]]
  /\ LET rr == RunObject(runs', pending[h].target)
     IN /\ Observe(h, rr)
        /\ Loop(h, rr, activeRun, FALSE)
  /\ UNCHANGED <<users, messages, sock, myRun, failNotified>>

\* runs.retrieve or submitToolOutputs throws (lines 42, 59, 99): the catch
ServiceFailed(h) ==
  /\ ~Busy
  /\ pc[h] \in {"first", "poll", "submit"}
  /\ Catch(h, "service")
  /\ UNCHANGED <<shapes, users, activeRun, messages, sock, myRun, lastUpdate,
                 failNotified, observedFail, mutated, dispatchCount, batchSeen,
                 submitCount, lastObserved, spins, runs>>

\* the loop goes round with runResult unchanged (lines 53, 64-97): activeRun
\* was null, nothing was awaited
Spin(h) ==
  /\ pc[h] = "spin"
  /\ spins[h] < MaxSpin
  /\ DispatchBatch(h, runResult[h], activeRun)
  /\ UNCHANGED <<users, messages, sock, myRun, failNotified, observedFail,
                 batchSeen, lastObserved, runs>>

\* the external service moves run r on; menu: the batches it may ask for
ServiceStep(r, menu) ==
  /\ r \in 1..Len(runs)
  /\ \/ /\ runs[r].status = "queued"
        /\ runs' = [runs EXCEPT ![r].status = "in_progress"]
        /\ UNCHANGED dispatchCount
     \/ /\ runs[r].status = "in_progress"
        /\ runs[r].nbatch < MaxBatches
        /\ \E fs \in menu :
             LET calls == MkCalls(r, runs[r].nbatch + 1, fs)
             IN /\ runs' = [runs EXCEPT ![r] =
                              [status |-> "requires_action", calls |-> calls,
                               nbatch |-> @.nbatch + 1]]
                /\ dispatchCount' = dispatchCount @@ [k \in CallIds(calls) |-> 0]
     \/ /\ runs[r].status = "in_progress"
        /\ \E s \in {"completed", "failed"} :
             runs' = [runs EXCEPT ![r].status = s]
        /\ UNCHANGED dispatchCount
     \/ /\ runs[r].status \in NonTerminal
        /\ \E s \in {"cancelled", "expired"} :
             runs' = [runs EXCEPT ![r] = [status |-> s, calls |-> <<>>, nbatch |-> @.nbatch]]
        /\ UNCHANGED dispatchCount
  /\ UNCHANGED <<progVars, lastUpdate, failNotified, observedFail, caught,
                 snapshotTo, mutated, batchSeen, submitCount, lastObserved, spins>>

\* the shapes clients send with create-shape and update-shape
EventShapes ==
  {[id |-> i, x |-> "0", y |-> "0", w |-> "1", h |-> "1", color |-> DefaultColor] :
     i \in RandomIds}
EventUpdates ==
  {[id |-> "0", x |-> "1", y |-> "0", w |-> "1", h |-> "1"]}

\* one instruction in a session with every other event
Next ==
  \/ \E c \in Clients : Connect(c)
  \/ \E c \in Clients : Disconnect(c)
  \/ \E c \in Clients, s \in EventShapes : CreateShapeEvent(c, s)
  \/ \E c \in Clients, u \in EventUpdates : UpdateShapeEvent(c, u)
  \/ \E c \in Clients : Prompt(c, 1)
  \/ MessageCreated(1)
  \/ StartFailed(1)
  \/ RunCreated(1)
  \/ FirstRetrieved(1)
  \/ SleepDone(1)
  \/ Polled(1)
  \/ Submitted(1)
  \/ ServiceFailed(1)
  \/ ServiceStep(1, BatchMenu)

Spec == Init /\ [][Next]_vars

\* the batches the service asks for when instructions race
RaceBatchMenu == { <<CreateOk, EditZero>>, <<CreateMalformed, CreateOk>> }

\* instructions sent at any time by one client
NextRace ==
  \/ Connect("c1")
  \/ \E h \in Prompts : Prompt("c1", h)
  \/ \E h \in Prompts : MessageCreated(h)
  \/ \E h \in Prompts : StartFailed(h)
  \/ \E h \in Prompts : RunCreated(h)
  \/ \E h \in Prompts : FirstRetrieved(h)
  \/ \E h \in Prompts : SleepDone(h)
  \/ \E h \in Prompts : Polled(h)
  \/ \E h \in Prompts : Submitted(h)
  \/ \E h \in Prompts : ServiceFailed(h)
  \/ \E h \in Prompts : Spin(h)
  \/ \E r \in Prompts : ServiceStep(r, RaceBatchMenu)

SpecRace == Init /\ [][NextRace]_vars

\* one instruction answered by batches of one tool call, on a whiteboard one
\* client draws on; no call to the service fails
NextTools ==
  \/ Connect("c1")
  \/ \E s \in EventShapes : CreateShapeEvent("c1", s)
  \/ Prompt("c1", 1)
  \/ MessageCreated(1)
  \/ RunCreated(1)
  \/ FirstRetrieved(1)
  \/ SleepDone(1)
  \/ Polled(1)
  \/ Submitted(1)
  \/ ServiceStep(1, ToolMenu)

SpecTools == Init /\ [][NextTools]_vars

\* instructions sent at any time by one client, to a service whose calls all
\* succeed and whose runs need no tool
NextRaceNoFail ==
  \/ Connect("c1")
  \/ \E h \in Prompts : Prompt("c1", h)
  \/ \E h \in Prompts : MessageCreated(h)
  \/ \E h \in Prompts : RunCreated(h)
  \/ \E h \in Prompts : FirstRetrieved(h)
  \/ \E h \in Prompts : SleepDone(h)
  \/ \E h \in Prompts : Polled(h)
  \/ \E r \in Prompts : ServiceStep(r, {})

\* every call to the service is answered and every timer fires (lines 29, 34,
\* 42, 57, 59): an await that can resume does resume. Nothing is assumed of
\* the clients or of how far the service takes a run.
SpecRaceFair ==
  /\ Init
  /\ [][NextRaceNoFail]_vars
  /\ \A h \in Prompts :
       /\ WF_vars(MessageCreated(h))
       /\ WF_vars(RunCreated(h))
       /\ WF_vars(FirstRetrieved(h))
       /\ WF_vars(SleepDone(h))
       /\ WF_vars(Polled(h))


\* ----------------------------------------------------------------- claims
\* a handler between its start (line 23) and its end
InFlight(h) == pc[h] \in {"msg", "create", "first", "sleep", "poll", "submit", "spin"}

\* C1: at most one instruction is being handled, and at most one run is in
\* flight at the service, at any instant.
C1_OneRunAtATime ==
  /\ \A h1, h2 \in Prompts : (InFlight(h1) /\ InFlight(h2)) => h1 = h2
  /\ \A r1, r2 \in 1..Len(runs) :
       (runs[r1].status \in NonTerminal /\ runs[r2].status \in NonTerminal) => r1 = r2

\* C2: once a call to the external service has failed while a run was active
\* (the catch of line 107 ran), activeRun is null.
C2_ErrorClearsHandle ==
  \A h \in Prompts : (pc[h] = "done" /\ caught[h] = "service") => activeRun = NoRun

\* C3: a handler that observed a failed status (cancelled, failed, expired)
\* has emitted the `updates` naming it and its promise is rejected.
C3_FailureNotified ==
  \A h \in Prompts :
    observedFail[h] => (failNotified[h] /\ promise[h] = "rejected")

\* run r had one of its tool calls dispatched, or tool outputs submitted to
\* it, in this step
DispatchedFor(r) ==
  \E k \in DOMAIN dispatchCount : k[1] = r /\ dispatchCount'[k] > dispatchCount[k]
SubmittedFor(r) == submitCount'[r] > submitCount[r]

\* C4: the step in which a handler observes a failed status leaves activeRun
\* null, and no step dispatches tool calls of, or submits tool outputs to, a
\* run whose last observed status is a failed one.
C4_FailureClearsHandle ==
  [][ /\ \A h \in Prompts :
           (~observedFail[h] /\ observedFail'[h]) => activeRun' = NoRun
      /\ \A r \in 1..Len(submitCount) :
           (DispatchedFor(r) \/ SubmittedFor(r)) => lastObserved'[r] \notin failedStatus
    ]_vars

\* C4's case: a handler dispatched a batch that changed shapes, later saw the
\* run failed, and ended with the handle null
C4_Witness ==
  \E h \in Prompts :
    observedFail[h] /\ mutated[h] /\ pc[h] = "done" /\ activeRun = NoRun

\* C5: every requires_action observation of a run is answered by one
\* submitToolOutputs, whose outputs answer the batch's calls one for one, in
\* their order, by id.
C5_OneSubmissionPerBatch ==
  /\ \A r \in 1..Len(runs) : batchSeen[r] = submitCount[r]
  /\ \A h \in Prompts :
       pc[h] = "submit" =>
         /\ Len(pending[h].outputs) = Len(runResult[h].calls)
         /\ \A i \in 1..Len(pending[h].outputs) :
              pending[h].outputs[i].tool_call_id = runResult[h].calls[i].id

\* C6: no tool call is dispatched to its handler more than once.
C6_DispatchedOnce ==
  \A k \in DOMAIN dispatchCount : dispatchCount[k] <= 1

\* C7: a failure in one tool call never aborts the loop: the catch of line
\* 107 is never entered from the dispatch of a batch, and a batch that was
\* observed has every call dispatched.
C7_ToolFailureNeverAborts ==
  /\ \A h \in Prompts : caught[h] # "parse"
  /\ \A h \in Prompts :
       pc[h] = "submit" =>
         \A i \in 1..Len(runResult[h].calls) :
           dispatchCount[runResult[h].calls[i].id] >= 1

\* C8: every handle-user-prompt event whose handling ended was answered by a
\* `snapshot` to its socket.
C8_SnapshotInAllCases ==
  \A h \in Prompts : pc[h] = "done" => sock[h] \in snapshotTo[h]

\* C9: when the handling of an instruction that changed shapes ends, every
\* connected client is sent the `snapshot`.
C9_SnapshotToAll ==
  [][ \A h \in Prompts :
        (pc[h] # "done" /\ pc'[h] = "done" /\ mutated'[h]) => users \subseteq snapshotTo'[h]
    ]_vars

\* C10: no two shapes of the collection share an id.
C10_UniqueIds ==
  \A i, j \in 1..Len(shapes) : shapes[i].id = shapes[j].id => i = j

\* ------------------------------------------------------ claims on the tools
\* the tool call with id k is dispatched in this step; ids are <<run, batch,
\* position>> and the run still shows the batch
DispatchedCall(k) == dispatchCount'[k] > dispatchCount[k]
TheCall(k) == runs[k[1]].calls[k[3]]
TheArgs(k) == TheCall(k).function.arguments.obj
\* the call is the only one of its batch: shapes and shapes' are the
\* collection before and after it
Alone(k) == Len(runs[k[1]].calls) = 1
\* the text of the tool result for call k that goes into the submission
ResultText(k) ==
  UNION { { pending'[h].outputs[i].output :
              i \in {j \in 1..Len(pending'[h].outputs) :
                       pending'[h].outputs[j].tool_call_id = k} } :
          h \in {g \in Prompts : pc'[g] = "submit"} }
\* a property the caller gave a value: JSON null reads as not given (`??`)
Supplied(v) == v \notin {Undefined, Null}
EditableFields == {"x", "y", "w", "h", "color"}
IsToolCall(k, name) ==
  /\ DispatchedCall(k)
  /\ Alone(k)
  /\ TheCall(k).function.name = name
  /\ TheCall(k).function.arguments.json = "object"

\* C11: editExistingShape with the id of an existing shape changes, on that
\* shape, exactly the properties among x, y, w, h, color that were supplied,
\* to the supplied values; its other properties and its id, every other
\* shape, the length and the order of the collection stay as they were.
C11_EditChangesOnlySupplied ==
  [][ \A k \in DOMAIN dispatchCount :
        ( /\ IsToolCall(k, "editExistingShape")
          /\ \E i \in 1..Len(shapes) : shapes[i].id = TheArgs(k).id )
        => /\ Len(shapes') = Len(shapes)
           /\ \E i \in 1..Len(shapes) :
                /\ shapes[i].id = TheArgs(k).id
                /\ shapes'[i].id = shapes[i].id
                /\ \A f \in EditableFields :
                     shapes'[i][f] = IF Supplied(TheArgs(k)[f])
                                     THEN TheArgs(k)[f] ELSE shapes[i][f]
                /\ \A j \in 1..Len(shapes) : j # i => shapes'[j] = shapes[j]
    ]_vars

\* C11's case: an edit that supplied x and no colour was applied to one of two
\* shapes
C11_Witness ==
  \E h \in Prompts :
    /\ pc[h] = "submit" /\ mutated[h]
    /\ Len(runResult[h].calls) = 1
    /\ runResult[h].calls[1].function.name = "editExistingShape"
    /\ LET a == runResult[h].calls[1].function.arguments.obj
       IN /\ a.x = "1" /\ a.color = Undefined
          /\ Len(shapes) = 2
          /\ \E i \in 1..2 :
               shapes[i].id = a.id /\ shapes[i].x = "1" /\ shapes[i].color = DefaultColor

\* C12: createShape with finite x, y, w, h makes the collection one longer,
\* leaves the shapes it had as they were, in their places, and the shape
\* appended has the x, y, w, h given and the colour given, or hsl(0, 0%, 0%)
\* when none was.
C12_CreateAppends ==
  [][ \A k \in DOMAIN dispatchCount :
        ( /\ IsToolCall(k, "createShape")
          /\ \A f \in {"x", "y", "w", "h"} : TheArgs(k)[f] \in Numbers )
        => /\ Len(shapes') = Len(shapes) + 1
           /\ SubSeq(shapes', 1, Len(shapes)) = shapes
           /\ \A f \in {"x", "y", "w", "h"} : shapes'[Len(shapes')][f] = TheArgs(k)[f]
           /\ shapes'[Len(shapes')].color =
                IF Supplied(TheArgs(k).color) THEN TheArgs(k).color ELSE DefaultColor
    ]_vars

\* C12's case: a create without a colour appended a black shape after a shape
\* that was there
C12_Witness ==
  \E h \in Prompts :
    /\ pc[h] = "submit" /\ mutated[h]
    /\ Len(runResult[h].calls) = 1
    /\ runResult[h].calls[1].function.name = "createShape"
    /\ runResult[h].calls[1].function.arguments.obj.color = Undefined
    /\ Len(shapes) = 2
    /\ shapes[2].color = DefaultColor /\ shapes[2].h = "0"

\* C13: editExistingShape with an id no shape has leaves the collection as it
\* was, and the call's tool result is the error text of line 257.
C13_EditUnknownId ==
  [][ \A k \in DOMAIN dispatchCount :
        ( /\ IsToolCall(k, "editExistingShape")
          /\ \A i \in 1..Len(shapes) : shapes[i].id # TheArgs(k).id )
        => /\ shapes' = shapes
           /\ ResultText(k) = {"Error: could not find shape"}
    ]_vars

\* C13's case: an edit naming an id absent from a whiteboard with a shape on
\* it was answered with the error
C13_Witness ==
  \E h \in Prompts :
    /\ pc[h] = "submit"
    /\ Len(shapes) = 1
    /\ Len(runResult[h].calls) = 1
    /\ runResult[h].calls[1].function.name = "editExistingShape"
    /\ runResult[h].calls[1].function.arguments.json = "object"
    /\ runResult[h].calls[1].function.arguments.obj.id \in RandomIds
    /\ runResult[h].calls[1].function.arguments.obj.id # shapes[1].id
    /\ pending[h].outputs[1].output = "Error: could not find shape"

\* C14: createShape with one of x, y, w, h missing or not a finite number
\* leaves the collection as it was, and the call's tool result is the error
\* text of line 243.
C14_CreateRejects ==
  [][ \A k \in DOMAIN dispatchCount :
        ( /\ DispatchedCall(k) /\ Alone(k)
          /\ TheCall(k).function.name = "createShape"
          /\ TheCall(k).function.arguments.json \in {"object", "null"}
          /\ \E f \in {"x", "y", "w", "h"} : TheArgs(k)[f] \notin Numbers )
        => /\ shapes' = shapes
           /\ ResultText(k) = {"Error: required params were not given"}
    ]_vars

\* C14's case: a create whose w is null and whose other numbers are given was
\* answered with the error
C14_Witness ==
  \E h \in Prompts :
    /\ pc[h] = "submit" /\ ~mutated[h]
    /\ Len(runResult[h].calls) = 1
    /\ runResult[h].calls[1].function.name = "createShape"
    /\ runResult[h].calls[1].function.arguments.obj.w = Null
    /\ runResult[h].calls[1].function.arguments.obj.x = "0"
    /\ pending[h].outputs[1].output = "Error: required params were not given"

\* C15: the tool result of a call naming a function that is not one of the
\* registered tools is the text saying the function could not be found.
C15_UnknownToolReported ==
  \A h \in Prompts :
    pc[h] = "submit" =>
      \A i \in 1..Len(pending[h].outputs) :
        runResult[h].calls[i].function.name \notin OwnTools
          => pending[h].outputs[i].output = NotFoundText

\* C16: a handler stopped by an error of the external service has its
\* promise rejected; no promise stays pending after the handler is gone.
C16_ErrorsSettle ==
  \A h \in Prompts :
    (pc[h] = "crashed" \/ caught[h] = "service") => promise[h] = "rejected"

\* C17: when no call fails, an instruction whose run the service has
\* completed is eventually ended with its promise resolved, the handle null
\* and the empty `updates` sent.
C17_SuccessEndsInstruction ==
  \A h \in Prompts :
    (myRun[h] # NoRun /\ runs[myRun[h]].status = "completed")
      ~> (pc[h] = "done" /\ promise[h] = "resolved" /\ lastUpdate[h] = "empty")

\* C18: a handler that saw its run cancelled, failed or expired does not end
\* with the empty `updates` as the last one sent.
C18_EmptyOnlyOnSuccess ==
  \A h \in Prompts :
    (pc[h] = "done" /\ observedFail[h]) => lastUpdate[h] # "empty"

\* the collection after the first i calls of a batch, as the outputs tell:
\* a success output carries it, a failed call leaves it as it was
RECURSIVE StateAfter(_, _, _)
StateAfter(outs, s0, i) ==
  IF i = 0 THEN s0
  ELSE IF outs[i].output = SuccessText THEN outs[i].shapes
  ELSE StateAfter(outs, s0, i - 1)

\* C19: the step that answers a batch dispatches every call of it, once, and
\* leaves one submission whose i-th output carries the i-th call's id; a
\* success output carries the collection the i-th tool made of the collection
\* left by calls 1..i-1, starting from the collection as it was when the batch
\* was fetched and ending with the collection as it is after the step.
C19_BatchInOrder ==
  [][ \A h \in Prompts :
        (pc[h] # "submit" /\ pc'[h] = "submit") =>
          LET calls == runResult'[h].calls
              outs == pending'[h].outputs
          IN /\ Len(outs) = Len(calls)
             /\ \A i \in 1..Len(calls) : outs[i].tool_call_id = calls[i].id
             /\ dispatchCount' = Bump(dispatchCount, CallIds(calls))
             /\ StateAfter(outs, shapes, Len(calls)) = shapes'
             /\ \A i \in 1..Len(calls) :
                  outs[i].output = SuccessText =>
                    \E rnd \in RandomIds :
                      outs[i].shapes =
                        CallFn(calls[i].function.name, StateAfter(outs, shapes, i - 1),
                               JSONparse(calls[i].function.arguments), rnd).shapes
    ]_vars

\* C19's case: a batch of two calls that both succeeded, the second changing
\* what the first had left, with both outputs in one submission
C19_Witness ==
  \E h \in Prompts :
    /\ pc[h] = "submit"
    /\ Len(pending[h].outputs) = 2
    /\ pending[h].outputs[1].output = SuccessText
    /\ pending[h].outputs[2].output = SuccessText
    /\ pending[h].outputs[1].shapes # pending[h].outputs[2].shapes
    /\ Len(pending[h].outputs[1].shapes) = 2
    /\ pending[h].outputs[2].shapes = shapes

\* C20: a handler awaiting runs.retrieve or submitToolOutputs awaits it for
\* the run its own runs.create returned.
C20_OwnRunOnly ==
  \A h \in Prompts :
    pc[h] \in {"first", "poll", "submit"} => pending[h].target = myRun[h]

=============================================================================
